---- MODULE Spec2Model ----
(***************************************************************************)
(* LAN share module (src/src/main/modules/lanShare.ts): the receiver role  *)
(* of the HTTP server (offer / upload handlers), the sender role of the    *)
(* 'lan:share' IPC handler, and the UDP discovery message handler.         *)
(*                                                                         *)
(* One action is one event-loop task: an event handler together with the   *)
(* promise continuations (microtasks) it triggers, which run before any    *)
(* other event is dispatched.                                              *)
(***************************************************************************)
EXTENDS Integers, Sequences, FiniteSets, TLC

\* ---------------------------------------------------------------- bounds
MaxOffers == 2
MaxUploads == 2
MaxChunks == 1
MaxClock == 1
MaxShares == 2
MaxDatagrams == 3
MaxMinted == 1
MaxCounted == 1
MaxPeers == 1
MaxLen == 3

\* --------------------------------------------------------------- strings
\* A string is a sequence of one-character strings.

\* The character class of the regular expression in sanitize:
\* [\/:*?"<>|]  (the backslash escapes the slash; it is not itself listed)
SanitizeClass == {"/", ":", "*", "?", "\"", "<", ">", "|"}

\* Characters String.prototype.trim removes (those the inputs here use).
WhiteSpace == {" ", "\t", "\n"}

DropNothing(s) == s

RECURSIVE DropClass(_)
\* the rest of s after a leading run of class characters (the regex's +)
DropClass(s) ==
  IF s = <<>> THEN <<>>
  ELSE IF Head(s) \in SanitizeClass THEN DropClass(Tail(s)) ELSE s

RECURSIVE ReplaceRuns(_)
\* name.replace(/[\/:*?"<>|]+/g, '_')
ReplaceRuns(s) ==
  IF s = <<>> THEN <<>>
  ELSE IF Head(s) \in SanitizeClass
       THEN <<"_">> \o ReplaceRuns(DropClass(Tail(s)))
       ELSE <<Head(s)>> \o ReplaceRuns(Tail(s))

RECURSIVE TrimStart(_)
TrimStart(s) ==
  IF s = <<>> THEN <<>>
  ELSE IF Head(s) \in WhiteSpace THEN TrimStart(Tail(s)) ELSE s

RECURSIVE TrimEnd(_)
TrimEnd(s) ==
  IF s = <<>> THEN <<>>
  ELSE IF s[Len(s)] \in WhiteSpace THEN TrimEnd(SubSeq(s, 1, Len(s) - 1)) ELSE s

Trim(s) == TrimEnd(TrimStart(s))

sanitize(name) == Trim(ReplaceRuns(name))

\* Strings of at most MaxLen characters over a set of characters.
StringsOver(chars) == UNION { [1..k -> chars] : k \in 0..MaxLen }

\* ------------------------------------------------------------ value sets
\* Names sanitize is applied to: a listed character, two characters of the
\* class, the backslash, a space, and the name a/b:c*d.
NameChars == {"a", "/", ":", "\\", " "}
ExampleName == <<"a", "/", "b", ":", "c", "*", "d">>
Names == StringsOver(NameChars) \cup {ExampleName}

\* Project names an offer body may carry; <<>> is a missing or empty name.
ProjectNames == { <<>>, <<"a", "/", "b">> }

\* body?.projectName || 'Project'
DefaultProject == <<"P", "r", "o", "j", "e", "c", "t">>

OfferIds == 1..MaxOffers
UploadIds == 1..MaxUploads

\* The token of a request whose query string has no token (token || '').
EmptyToken == 0
\* Tokens a request may carry: the empty one and every value the receiver can
\* mint (crypto.randomBytes(16): modelled as fresh, never repeated).
Tokens == 0..MaxOffers

\* getReceivedRoot(): <Documents>/<app>/Shared
ReceivedRoot == [base |-> <<"S", "h", "a", "r", "e", "d">>, ts |-> -1]

VARIABLES
  clock,           \* new Date(), in seconds
  nextOffer,       \* offers received so far (offer ids are fresh random values)
  offers,          \* per POST /lan/offer request: its handler's state
  settled,         \* offers whose waitForOfferDecision closure has settled = true
  timers,          \* offers whose setTimeout callback has not run yet
  pendingOffers,   \* keys of the pendingOffers map
  pendingUploads,  \* the pendingUploads map: token -> entry
  nextToken,       \* tokens minted so far
  dirs,            \* directories that exist under the received root
  zips,            \* destination directories that hold an incoming.zip
  nextUpload,      \* POST /lan/upload requests received so far
  uploads,         \* per POST /lan/upload request: its handler's state
  activeReceives,
  files,           \* files under the received root: <<directory, relative path>>
  badBodyStatus,   \* statuses answered to offers whose body is no valid JSON
  ipcReply,        \* the last 'lan:offer-reply' call: <<offerId, what it returned>>
  nextShare,       \* 'lan:share' requests received so far
  shares,          \* per 'lan:share' request: its handler's state
  archives,        \* share requests whose temporary archive file exists
  activeSends,
  datagrams,       \* datagrams sent to the discovery socket so far
  inbox,           \* datagrams in flight to the discovery socket
  udpSent,         \* datagrams the discovery socket has sent in reply, in order
  peerEvents,      \* info ids forwarded to the renderer as 'lan:peer'
  selfHandled,     \* responses carrying the local instance id handled so far
  sanName,         \* the argument of a call of sanitize
  sanResult,       \* what the call returned, once it has
  env,             \* per run: what a call of getLocalInfo reads
  info             \* per run: the PeerInfo the call returned, once it has

recvVars == <<clock, nextOffer, offers, settled, timers, pendingOffers,
              pendingUploads, nextToken, dirs, zips, nextUpload, uploads,
              activeReceives, ipcReply, files, badBodyStatus>>

sendVars == <<nextShare, shares, archives, activeSends>>

discVars == <<datagrams, inbox, udpSent, peerEvents, selfHandled>>

fnVars == <<sanName, sanResult, env, info>>

\* An absent optional field is {}, a present one {value}.
NoOffer == [st |-> "none", name |-> <<>>, resolves |-> 0, ev |-> <<>>,
            status |-> 0, accept |-> {}, uploadUrl |-> {}, token |-> {},
            destLabel |-> {}]

NoUpload == [st |-> "none", tok |-> EmptyToken, pending |-> {}, received |-> 0,
             ev |-> <<>>, status |-> 0, error |-> "", outcome |-> "",
             notified |-> FALSE]

RecvInit ==
  /\ clock = 0
  /\ nextOffer = 0
  /\ offers = [o \in OfferIds |-> NoOffer]
  /\ settled = {}
  /\ timers = {}
  /\ pendingOffers = {}
  /\ pendingUploads = <<>>
  /\ nextToken = 0
  /\ dirs = {}
  /\ zips = {}
  /\ files = {}
  /\ badBodyStatus = {}
  /\ nextUpload = 0
  /\ uploads = [u \in UploadIds |-> NoUpload]
  /\ activeReceives = 0
  /\ ipcReply = <<0, "none">>

\* Math.max(0, n - 1)
DecNoClamp(n) == n - 1
Dec(n) == IF n - 1 > 0 THEN n - 1 ELSE 0

\* Map.delete(key)
MapDelete(m, k) == [x \in DOMAIN m \ {k} |-> m[x]]

\* Map.set(key, value)
MapSet(m, k, v) == [x \in DOMAIN m \cup {k} |-> IF x = k THEN v ELSE m[x]]

\* The seconds of the wall clock advance.
Tick ==
  /\ clock < MaxClock
  /\ clock' = clock + 1
  /\ UNCHANGED <<nextOffer, offers, settled, timers, pendingOffers,
                 pendingUploads, nextToken, dirs, zips, nextUpload, uploads,
                 activeReceives, ipcReply>>
  /\ UNCHANGED <<files, badBodyStatus>>
  /\ UNCHANGED <<sendVars, discVars, fnVars>>

\* POST /lan/offer with a JSON body, up to the await of waitForOfferDecision:
\* a fresh offer id, the 'prompt' event, the pendingOffers entry, the
\* 'lan:offer' prompt and the timer.
OfferRequest(n) ==
  /\ nextOffer < MaxOffers
  /\ nextOffer' = nextOffer + 1
  /\ offers' = [offers EXCEPT ![nextOffer + 1] =
                  [NoOffer EXCEPT !.st = "waiting", !.name = n,
                                  !.ev = <<"prompt">>]]
  /\ pendingOffers' = pendingOffers \cup {nextOffer + 1}
  /\ timers' = timers \cup {nextOffer + 1}
  /\ UNCHANGED <<clock, settled, pendingUploads, nextToken, dirs, zips,
                 nextUpload, uploads, activeReceives, ipcReply>>
  /\ UNCHANGED <<files, badBodyStatus>>
  /\ UNCHANGED <<sendVars, discVars, fnVars>>

\* The handler after the await, accept = false: the 'declined' event and the
\* response {accept:false, receiver, message}.
DeclinePath(o) ==
  /\ offers' = [offers EXCEPT ![o] =
                  [@ EXCEPT !.st = "declined", !.resolves = @ + 1,
                            !.ev = Append(@, "declined"),
                            !.status = 200, !.accept = {FALSE}]]
  /\ UNCHANGED <<pendingUploads, nextToken, dirs>>

\* The handler after the await, accept = true: the destination directory, the
\* token, the pendingUploads entry, the 'accepted' event and the response.
AcceptPathNoDir(o) ==
  LET base == sanitize(IF offers[o].name = <<>> THEN DefaultProject
                       ELSE offers[o].name)
      destDir == [base |-> base, ts |-> clock]
      token == nextToken + 1
  IN /\ dirs' = dirs
     /\ nextToken' = token
     /\ pendingUploads' = MapSet(pendingUploads, token,
                                 [destDir |-> destDir, projectName |-> base,
                                  transferId |-> token])
     /\ offers' = [offers EXCEPT ![o] =
                     [@ EXCEPT !.st = "accepted", !.resolves = @ + 1,
                               !.ev = Append(@, "accepted"),
                               !.status = 200, !.accept = {TRUE},
                               !.uploadUrl = {token}, !.token = {token},
                               !.destLabel = {destDir}]]
AcceptPath(o) ==
  LET base == sanitize(IF offers[o].name = <<>> THEN DefaultProject
                       ELSE offers[o].name)
      destDir == [base |-> base, ts |-> clock]
      token == nextToken + 1
  IN /\ dirs' = dirs \cup {ReceivedRoot, destDir}
     /\ nextToken' = token
     /\ pendingUploads' = MapSet(pendingUploads, token,
                                 [destDir |-> destDir, projectName |-> base,
                                  transferId |-> token])
     /\ offers' = [offers EXCEPT ![o] =
                     [@ EXCEPT !.st = "accepted", !.resolves = @ + 1,
                               !.ev = Append(@, "accepted"),
                               !.status = 200, !.accept = {TRUE},
                               !.uploadUrl = {token}, !.token = {token},
                               !.destLabel = {destDir}]]

\* done(ok) of waitForOfferDecision: at most one resolve; the resolve runs the
\* rest of the offer handler.
done(o, ok) ==
  IF o \in settled
  THEN UNCHANGED <<settled, offers, pendingUploads, nextToken, dirs>>
  ELSE /\ settled' = settled \cup {o}
       /\ IF ok THEN AcceptPath(o) ELSE DeclinePath(o)

\* POST /lan/offer with a body JSON.parse throws on: parseJsonBody rejects,
\* the await throws before an offer id exists, and the outer catch answers
\* 500 {ok:false, error}.
OfferBadBody ==
  /\ badBodyStatus' = badBodyStatus \cup {500}
  /\ UNCHANGED <<clock, nextOffer, offers, settled, timers, pendingOffers,
                 pendingUploads, nextToken, dirs, zips, nextUpload, uploads,
                 activeReceives, ipcReply, files>>
  /\ UNCHANGED <<sendVars, discVars, fnVars>>

\* ipcMain.handle('lan:offer-reply'): any id, issued or not.
OfferReplyKeepEntry(id, acc) ==
  /\ IF id \in pendingOffers
     THEN /\ pendingOffers' = pendingOffers
          /\ done(id, acc)
          /\ ipcReply' = <<id, "ok">>
     ELSE /\ ipcReply' = <<id, "Offer not found">>
          /\ UNCHANGED <<pendingOffers, settled, offers, pendingUploads,
                         nextToken, dirs>>
  /\ UNCHANGED <<clock, nextOffer, timers, zips, nextUpload, uploads,
                 activeReceives>>
  /\ UNCHANGED <<files, badBodyStatus>>
  /\ UNCHANGED <<sendVars, discVars, fnVars>>
OfferReplyClears(id, acc) ==
  /\ IF id \in pendingOffers
     THEN /\ pendingOffers' = {}
          /\ done(id, acc)
          /\ ipcReply' = <<id, "ok">>
     ELSE /\ ipcReply' = <<id, "Offer not found">>
          /\ UNCHANGED <<pendingOffers, settled, offers, pendingUploads,
                         nextToken, dirs>>
  /\ UNCHANGED <<clock, nextOffer, timers, zips, nextUpload, uploads,
                 activeReceives>>
  /\ UNCHANGED <<files, badBodyStatus>>
  /\ UNCHANGED <<sendVars, discVars, fnVars>>
OfferReply(id, acc) ==
  /\ IF id \in pendingOffers
     THEN /\ pendingOffers' = pendingOffers \ {id}
          /\ done(id, acc)
          /\ ipcReply' = <<id, "ok">>
     ELSE /\ ipcReply' = <<id, "Offer not found">>
          /\ UNCHANGED <<pendingOffers, settled, offers, pendingUploads,
                         nextToken, dirs>>
  /\ UNCHANGED <<clock, nextOffer, timers, zips, nextUpload, uploads,
                 activeReceives>>
  /\ UNCHANGED <<files, badBodyStatus>>
  /\ UNCHANGED <<sendVars, discVars, fnVars>>

\* The setTimeout callback of waitForOfferDecision (the timer is never
\* cleared: it also runs after a reply, and then does nothing).
TimeoutNoResolve(o) ==
  /\ o \in timers
  /\ timers' = timers \ {o}
  /\ UNCHANGED <<pendingOffers, settled, offers, pendingUploads, nextToken,
                 dirs>>
  /\ UNCHANGED <<clock, nextOffer, zips, nextUpload, uploads, activeReceives,
                 ipcReply>>
  /\ UNCHANGED <<files, badBodyStatus>>
  /\ UNCHANGED <<sendVars, discVars, fnVars>>
TimeoutSweeps(o) ==
  /\ o \in timers
  /\ timers' = timers \ {o}
  /\ IF o \notin settled
     THEN /\ pendingOffers' = pendingOffers \ {o}
          /\ done(o, FALSE)
     ELSE /\ pendingUploads' =
               [t \in DOMAIN pendingUploads \ offers[o].token |->
                  pendingUploads[t]]
          /\ UNCHANGED <<pendingOffers, settled, offers, nextToken, dirs>>
  /\ UNCHANGED <<clock, nextOffer, zips, nextUpload, uploads, activeReceives,
                 ipcReply>>
  /\ UNCHANGED <<files, badBodyStatus>>
  /\ UNCHANGED <<sendVars, discVars, fnVars>>
Timeout(o) ==
  /\ o \in timers
  /\ timers' = timers \ {o}
  /\ IF o \notin settled
     THEN /\ pendingOffers' = pendingOffers \ {o}
          /\ done(o, FALSE)
     ELSE UNCHANGED <<pendingOffers, settled, offers, pendingUploads,
                      nextToken, dirs>>
  /\ UNCHANGED <<clock, nextOffer, zips, nextUpload, uploads, activeReceives,
                 ipcReply>>
  /\ UNCHANGED <<files, badBodyStatus>>
  /\ UNCHANGED <<sendVars, discVars, fnVars>>

\* POST /lan/upload?token=t, up to the await of the save promise: the token
\* check, then activeReceives++, the first 'receiving' event and the write
\* stream on <destDir>/incoming.zip.
UploadRequestNoCheck(t) ==
  /\ nextUpload < MaxUploads
  /\ nextUpload' = nextUpload + 1
  /\ LET pending == IF t \in DOMAIN pendingUploads THEN pendingUploads[t]
                    ELSE [destDir |-> ReceivedRoot, projectName |-> <<>>,
                          transferId |-> 0]
     IN /\ uploads' = [uploads EXCEPT ![nextUpload + 1] =
                         [NoUpload EXCEPT !.st = "receiving", !.tok = t,
                                          !.pending = {pending},
                                          !.ev = <<"receiving">>]]
        /\ activeReceives' = activeReceives + 1
        /\ zips' = zips \cup {pending.destDir}
  /\ UNCHANGED <<clock, nextOffer, offers, settled, timers, pendingOffers,
                 pendingUploads, nextToken, dirs, ipcReply>>
  /\ UNCHANGED <<files, badBodyStatus>>
  /\ UNCHANGED <<sendVars, discVars, fnVars>>
UploadRequest(t) ==
  /\ nextUpload < MaxUploads
  /\ nextUpload' = nextUpload + 1
  /\ IF t \notin DOMAIN pendingUploads
     THEN /\ uploads' = [uploads EXCEPT ![nextUpload + 1] =
                           [NoUpload EXCEPT !.st = "closed", !.tok = t,
                                            !.status = 400,
                                            !.error = "Invalid token",
                                            !.outcome = "invalid"]]
          /\ UNCHANGED <<activeReceives, zips>>
     ELSE /\ uploads' = [uploads EXCEPT ![nextUpload + 1] =
                           [NoUpload EXCEPT !.st = "receiving", !.tok = t,
                                            !.pending = {pendingUploads[t]},
                                            !.ev = <<"receiving">>]]
          /\ activeReceives' = activeReceives + 1
          /\ zips' = zips \cup {pendingUploads[t].destDir}
  /\ UNCHANGED <<clock, nextOffer, offers, settled, timers, pendingOffers,
                 pendingUploads, nextToken, dirs, ipcReply>>
  /\ UNCHANGED <<files, badBodyStatus>>
  /\ UNCHANGED <<sendVars, discVars, fnVars>>

\* req.on('data'): received += chunk.length; emit('receiving')
ReqData(u) ==
  /\ uploads[u].st = "receiving"
  /\ uploads[u].received < MaxChunks
  /\ uploads' = [uploads EXCEPT ![u] =
                   [@ EXCEPT !.received = @ + 1, !.ev = Append(@, "receiving")]]
  /\ UNCHANGED <<clock, nextOffer, offers, settled, timers, pendingOffers,
                 pendingUploads, nextToken, dirs, zips, nextUpload,
                 activeReceives, ipcReply>>
  /\ UNCHANGED <<files, badBodyStatus>>
  /\ UNCHANGED <<sendVars, discVars, fnVars>>

\* req.on('error'): ws.close(), the decrement, the 'error' event, reject; the
\* rejection reaches the outer catch, which answers 500.
ReqError(u) ==
  /\ uploads[u].st = "receiving"
  /\ activeReceives' = Dec(activeReceives)
  /\ uploads' = [uploads EXCEPT ![u] =
                   [@ EXCEPT !.st = "closed", !.ev = Append(@, "error"),
                             !.status = 500, !.error = "request error",
                             !.outcome = "reqerr"]]
  /\ UNCHANGED <<clock, nextOffer, offers, settled, timers, pendingOffers,
                 pendingUploads, nextToken, dirs, zips, nextUpload, ipcReply>>
  /\ UNCHANGED <<files, badBodyStatus>>
  /\ UNCHANGED <<sendVars, discVars, fnVars>>

\* ws.on('error'): reject only; the rejection reaches the outer catch, which
\* answers 500.
WsError(u) ==
  /\ uploads[u].st = "receiving"
  /\ uploads' = [uploads EXCEPT ![u] =
                   [@ EXCEPT !.st = "closed", !.status = 500,
                             !.error = "write error", !.outcome = "wserr"]]
  /\ UNCHANGED <<clock, nextOffer, offers, settled, timers, pendingOffers,
                 pendingUploads, nextToken, dirs, zips, nextUpload,
                 activeReceives, ipcReply>>
  /\ UNCHANGED <<files, badBodyStatus>>
  /\ UNCHANGED <<sendVars, discVars, fnVars>>

\* ws.on('close'): resolve; the handler goes on to emit('extracting') and
\* awaits extract(tmpZip).
WsClose(u) ==
  /\ uploads[u].st = "receiving"
  /\ uploads' = [uploads EXCEPT ![u] =
                   [@ EXCEPT !.st = "extracting", !.ev = Append(@, "extracting")]]
  /\ UNCHANGED <<clock, nextOffer, offers, settled, timers, pendingOffers,
                 pendingUploads, nextToken, dirs, zips, nextUpload,
                 activeReceives, ipcReply>>
  /\ UNCHANGED <<files, badBodyStatus>>
  /\ UNCHANGED <<sendVars, discVars, fnVars>>

\* path.join(pending.destDir, 'incoming.zip')
TmpZip(destDir) == <<destDir, "incoming.zip">>

\* The pending entry the handler captured at the token check.
PendingOf(u) == CHOOSE p \in uploads[u].pending : TRUE

\* pendingUploads.delete(token) of the completion path.
KeepToken(t) == pendingUploads
ConsumeToken(t) == MapDelete(pendingUploads, t)

\* archive.directory(sourcePath, baseName): every file of the directory is
\* an entry at its relative path under the folder baseName.
ZipEntries(baseName, relPaths) == { <<baseName>> \o rel : rel \in relPaths }

\* The archive the u-th upload request carries: the one zipSource makes of a
\* directory D holding the file sub/<u> (requests carry archives of
\* different directories of the same name).
UploadBody(u) == ZipEntries("D", { <<"sub", ToString(u)>> })

\* The relative paths of the files in directory dir.
Listing(dir) == { file[2] : file \in { g \in files : g[1] = dir } }

\* extract resolved (incoming.zip was there to read): the archive's entries
\* are in destDir; the finally removes incoming.zip, the token is deleted,
\* 'lan:received' is sent, the decrement, the 'done' event, the 200 answer.
ExtractOk(u) ==
  /\ uploads[u].st = "extracting"
  /\ PendingOf(u).destDir \in zips
  /\ files' = files \cup ({PendingOf(u).destDir} \X UploadBody(u))
  /\ zips' = zips \ {PendingOf(u).destDir}
  /\ pendingUploads' = ConsumeToken(uploads[u].tok)
  /\ activeReceives' = Dec(activeReceives)
  /\ uploads' = [uploads EXCEPT ![u] =
                   [@ EXCEPT !.st = "closed", !.ev = Append(@, "done"),
                             !.status = 200, !.outcome = "done",
                             !.notified = TRUE]]
  /\ UNCHANGED <<clock, nextOffer, offers, settled, timers, pendingOffers,
                 nextToken, dirs, nextUpload, ipcReply>>
  /\ UNCHANGED badBodyStatus
  /\ UNCHANGED <<sendVars, discVars, fnVars>>

\* extract rejected, having written any part of the archive: the 500 answer,
\* the decrement, the 'error' event, and the finally removes incoming.zip.
ExtractFailKeepZip(u) ==
  /\ uploads[u].st = "extracting"
  /\ \E part \in SUBSET UploadBody(u) :
       files' = files \cup ({PendingOf(u).destDir} \X part)
  /\ activeReceives' = Dec(activeReceives)
  /\ uploads' = [uploads EXCEPT ![u] =
                   [@ EXCEPT !.st = "closed", !.ev = Append(@, "error"),
                             !.status = 500, !.error = "Extract failed",
                             !.outcome = "extractfail"]]
  /\ UNCHANGED <<clock, nextOffer, offers, settled, timers, pendingOffers,
                 pendingUploads, nextToken, dirs, zips, nextUpload, ipcReply>>
  /\ UNCHANGED badBodyStatus
  /\ UNCHANGED <<sendVars, discVars, fnVars>>
ExtractFail(u) ==
  /\ uploads[u].st = "extracting"
  /\ \E part \in SUBSET UploadBody(u) :
       files' = files \cup ({PendingOf(u).destDir} \X part)
  /\ zips' = zips \ {PendingOf(u).destDir}
  /\ activeReceives' = Dec(activeReceives)
  /\ uploads' = [uploads EXCEPT ![u] =
                   [@ EXCEPT !.st = "closed", !.ev = Append(@, "error"),
                             !.status = 500, !.error = "Extract failed",
                             !.outcome = "extractfail"]]
  /\ UNCHANGED <<clock, nextOffer, offers, settled, timers, pendingOffers,
                 pendingUploads, nextToken, dirs, nextUpload, ipcReply>>
  /\ UNCHANGED badBodyStatus
  /\ UNCHANGED <<sendVars, discVars, fnVars>>

\* ------------------------------------------------------------ sender role
ShareIds == 1..MaxShares

NoShare == [pc |-> "none", ev |-> <<>>, inc |-> 0, dec |-> 0, sent |-> 0,
            ok |-> {}, declined |-> FALSE, error |-> "", status |-> 0]

SendInit ==
  /\ nextShare = 0
  /\ shares = [s \in ShareIds |-> NoShare]
  /\ archives = {}
  /\ activeSends = 0

\* What httpPostJson resolves with: the reply's accept and whether it has a
\* non-empty uploadUrl (a reply that is not JSON resolves as {}).
OfferReplies == [accept : BOOLEAN, uploadUrl : BOOLEAN]

\* HTTP statuses of an upload response.
UploadStatuses == {200, 400, 500}

\* ipcMain.handle('lan:share'), up to the await of httpPostJson: the 'pending'
\* event and the offer POST.
Share ==
  /\ nextShare < MaxShares
  /\ nextShare' = nextShare + 1
  /\ shares' = [shares EXCEPT ![nextShare + 1] =
                  [NoShare EXCEPT !.pc = "offering", !.ev = <<"pending">>]]
  /\ UNCHANGED <<archives, activeSends>>
  /\ UNCHANGED <<recvVars, discVars, fnVars>>

\* httpPostJson resolved: declined unless accept and a non-empty uploadUrl;
\* otherwise the 'accepted' and 'zipping' events and the await of zipSource.
OfferAnsweredAcceptOnly(s, r) ==
  /\ shares[s].pc = "offering"
  /\ IF ~r.accept
     THEN shares' = [shares EXCEPT ![s] =
                       [@ EXCEPT !.pc = "returned", !.ev = Append(@, "declined"),
                                 !.ok = {FALSE}, !.declined = TRUE]]
     ELSE shares' = [shares EXCEPT ![s] =
                       [@ EXCEPT !.pc = "zipping",
                                 !.ev = @ \o <<"accepted", "zipping">>]]
  /\ UNCHANGED <<nextShare, archives, activeSends>>
  /\ UNCHANGED <<recvVars, discVars, fnVars>>
OfferAnswered(s, r) ==
  /\ shares[s].pc = "offering"
  /\ IF ~r.accept \/ ~r.uploadUrl
     THEN shares' = [shares EXCEPT ![s] =
                       [@ EXCEPT !.pc = "returned", !.ev = Append(@, "declined"),
                                 !.ok = {FALSE}, !.declined = TRUE]]
     ELSE shares' = [shares EXCEPT ![s] =
                       [@ EXCEPT !.pc = "zipping",
                                 !.ev = @ \o <<"accepted", "zipping">>]]
  /\ UNCHANGED <<nextShare, archives, activeSends>>
  /\ UNCHANGED <<recvVars, discVars, fnVars>>

\* httpPostJson rejected (request error or the timeout): the catch of the
\* handler returns {ok:false, error}.
OfferFailedThrows(s) ==
  /\ shares[s].pc = "offering"
  /\ shares' = [shares EXCEPT ![s] =
                  [@ EXCEPT !.pc = "thrown", !.error = "offer failed"]]
  /\ UNCHANGED <<nextShare, archives, activeSends>>
  /\ UNCHANGED <<recvVars, discVars, fnVars>>
OfferFailed(s) ==
  /\ shares[s].pc = "offering"
  /\ shares' = [shares EXCEPT ![s] =
                  [@ EXCEPT !.pc = "returned", !.ok = {FALSE},
                            !.error = "offer failed"]]
  /\ UNCHANGED <<nextShare, archives, activeSends>>
  /\ UNCHANGED <<recvVars, discVars, fnVars>>

\* zipSource rejected: the catch of the handler returns {ok:false, error}.
\* created: the failure came after fs.createWriteStream(outPath) (statSync
\* of the source, the archiver, the output stream), so the file outPath
\* exists; nothing removes it.
ZipFailed(s, created) ==
  /\ shares[s].pc = "zipping"
  /\ shares' = [shares EXCEPT ![s] =
                  [@ EXCEPT !.pc = "returned", !.ok = {FALSE},
                            !.error = "zip failed"]]
  /\ archives' = IF created THEN archives \cup {s} ELSE archives
  /\ UNCHANGED <<nextShare, activeSends>>
  /\ UNCHANGED <<recvVars, discVars, fnVars>>

\* The rest of the 'lan:share' handler once httpPostStream has resolved with
\* up.ok = ok: rmSync(zipPath), the decrement, the final event, the result.
\* rec is the share's record as httpPostStream left it, n the counter.
AfterUpload(rec, ok, status) ==
  [rec EXCEPT !.pc = "returned", !.dec = @ + 1,
              !.ev = Append(@, IF ok THEN "done" ELSE "error"),
              !.ok = {ok}, !.status = status,
              !.error = IF ok THEN "" ELSE "Upload failed"]

\* zipSource resolved: the 'uploading' event and httpPostStream up to its
\* first await. readable = FALSE: fs.statSync(filePath) throws, and
\* httpPostStream resolves {ok:false, status:0} without touching the counter.
ZipDone(s, readable) ==
  /\ shares[s].pc = "zipping"
  /\ IF readable
     THEN /\ shares' = [shares EXCEPT ![s] =
                          [@ EXCEPT !.pc = "uploading", !.inc = @ + 1,
                                    !.ev = Append(@, "uploading")]]
          /\ activeSends' = activeSends + 1
          /\ archives' = archives \cup {s}
     ELSE /\ shares' = [shares EXCEPT ![s] =
                          AfterUpload([@ EXCEPT !.ev = Append(@, "uploading")],
                                      FALSE, 0)]
          /\ activeSends' = Dec(activeSends)
          /\ archives' = archives \ {s}
  /\ UNCHANGED nextShare
  /\ UNCHANGED <<recvVars, discVars, fnVars>>

\* rs.on('data'): sent += chunk.length; emit('uploading')
ReadData(s) ==
  /\ shares[s].pc = "uploading"
  /\ shares[s].sent < MaxChunks
  /\ shares' = [shares EXCEPT ![s] =
                  [@ EXCEPT !.sent = @ + 1, !.ev = Append(@, "uploading")]]
  /\ UNCHANGED <<nextShare, archives, activeSends>>
  /\ UNCHANGED <<recvVars, discVars, fnVars>>

\* The upload response ended: httpPostStream resolves ok = (status = 200), and
\* the handler finishes.
UploadResponseAnyOk(s, status) ==
  /\ shares[s].pc = "uploading"
  /\ shares' = [shares EXCEPT ![s] = AfterUpload(@, status # 0, status)]
  /\ activeSends' = Dec(activeSends)
  /\ archives' = archives \ {s}
  /\ UNCHANGED nextShare
  /\ UNCHANGED <<recvVars, discVars, fnVars>>
UploadResponse(s, status) ==
  /\ shares[s].pc = "uploading"
  /\ shares' = [shares EXCEPT ![s] = AfterUpload(@, status = 200, status)]
  /\ activeSends' = Dec(activeSends)
  /\ archives' = archives \ {s}
  /\ UNCHANGED nextShare
  /\ UNCHANGED <<recvVars, discVars, fnVars>>

\* req.on('error') of httpPostStream: the decrement, the 'error' event and
\* resolve({ok:false, status:0}); then the handler finishes.
UploadReqError(s) ==
  /\ shares[s].pc = "uploading"
  /\ shares' = [shares EXCEPT ![s] =
                  AfterUpload([@ EXCEPT !.dec = @ + 1, !.ev = Append(@, "error")],
                              FALSE, 0)]
  /\ activeSends' = Dec(Dec(activeSends))
  /\ archives' = archives \ {s}
  /\ UNCHANGED nextShare
  /\ UNCHANGED <<recvVars, discVars, fnVars>>

\* Shares whose upload request is in flight.
Uploading == {s \in ShareIds : shares[s].pc = "uploading"}

\* -------------------------------------------------------------- discovery
\* The local instance id is 0, the other peers' ids are 1..MaxPeers.
instanceId == 0
PeerIds == 0..MaxPeers
\* An info object that has no id field.
NoId == -1

\* The texts the message handler tells apart: the empty text, a text that
\* starts with the request magic, a text that starts with '{' and is JSON
\* (t is the response magic or not; info absent or carrying an id or none),
\* a text that starts with '{' and is not JSON, anything else.
JsonTexts == [kind : {"json"}, res : BOOLEAN, info : {{}} \cup {{i} : i \in PeerIds \cup {NoId}}]
Texts == {[kind |-> "empty"], [kind |-> "req"], [kind |-> "badjson"],
          [kind |-> "other"]} \cup JsonTexts

\* The response envelope {t: DISCOVERY_MAGIC_RES, info} of a peer.
ResponseOf(i) == [kind |-> "json", res |-> TRUE, info |-> {i}]

DiscInit ==
  /\ datagrams = 0
  /\ inbox = {}
  /\ udpSent = <<>>
  /\ peerEvents = {}
  /\ selfHandled = 0

\* broadcastDiscovery(): the request goes to the broadcast address on the
\* discovery port, where the local socket is bound too.
BroadcastDiscovery ==
  /\ datagrams < MaxDatagrams
  /\ datagrams' = datagrams + 1
  /\ inbox' = inbox \cup {[text |-> [kind |-> "req"], from |-> instanceId]}
  /\ UNCHANGED <<udpSent, peerEvents, selfHandled>>
  /\ UNCHANGED <<recvVars, sendVars, fnVars>>

\* Another host sends a datagram to the discovery port.
RemoteDatagram(p, text) ==
  /\ datagrams < MaxDatagrams
  /\ datagrams' = datagrams + 1
  /\ inbox' = inbox \cup {[text |-> text, from |-> p]}
  /\ UNCHANGED <<udpSent, peerEvents, selfHandled>>
  /\ UNCHANGED <<recvVars, sendVars, fnVars>>

\* data?.t === DISCOVERY_MAGIC_RES && data?.info && data?.info.id !== instanceId
ForwardsUnfiltered(text) == text.kind = "json" /\ text.res /\ text.info # {}
Forwards(text) ==
  /\ text.kind = "json"
  /\ text.res
  /\ text.info # {}
  /\ text.info # {instanceId}

\* udpSocket.send(payload, rinfo.port, rinfo.address): the response envelope
\* with the local info goes to the source of the request.
SendReplyOnce(to) ==
  IF \E i \in DOMAIN udpSent : udpSent[i].to = to THEN udpSent
  ELSE Append(udpSent, [to |-> to, text |-> ResponseOf(instanceId)])
SendReply(to) == Append(udpSent, [to |-> to, text |-> ResponseOf(instanceId)])

\* udpSocket.on('message'): a request is answered to its source; a response
\* of another instance is forwarded as 'lan:peer'; the rest is dropped.
Message(m) ==
  /\ m \in inbox
  /\ IF m.text.kind = "req"
     THEN /\ udpSent' = SendReply(m.from)
          /\ inbox' = (inbox \ {m}) \cup
                        (IF m.from = instanceId
                         THEN {[text |-> ResponseOf(instanceId), from |-> instanceId]}
                         ELSE {})
          /\ UNCHANGED <<peerEvents, selfHandled>>
     ELSE /\ inbox' = inbox \ {m}
          /\ peerEvents' = IF Forwards(m.text) THEN peerEvents \cup m.text.info
                           ELSE peerEvents
          /\ selfHandled' = IF m.text.kind = "json" /\ m.text.res
                               /\ m.text.info = {instanceId}
                               /\ selfHandled = 0
                            THEN 1 ELSE selfHandled
          /\ UNCHANGED udpSent
  /\ UNCHANGED datagrams
  /\ UNCHANGED <<recvVars, sendVars, fnVars>>

\* ------------------------------------------------------- function calls
\* No call of sanitize under way.
SanitizeIdle ==
  /\ sanName = <<>>
  /\ sanResult = {}

\* sanitize(name) returns.
Sanitize ==
  /\ sanResult = {}
  /\ sanResult' = {sanitize(sanName)}
  /\ UNCHANGED <<sanName, env, info>>
  /\ UNCHANGED <<recvVars, sendVars, discVars>>

\* What getLocalInfo reads: os.userInfo().username ('' when there is none),
\* displayNameCache (absent until resolveDisplayNameAsync has set it),
\* os.hostname(), and settings.json: absent, unreadable (reading or parsing
\* throws), or parsed, with or without a lan section.
Logins == {"", "ann", "bob"}
DisplayNames == {"Ann A", "Bob B"}
HostName == "host"
LanSections == [broadcastDisplayName : BOOLEAN, broadcastLoginName : BOOLEAN]
Settings ==
  {[kind |-> "absent", lan |-> {}], [kind |-> "unreadable", lan |-> {}],
   [kind |-> "parsed", lan |-> {}]}
  \cup {[kind |-> "parsed", lan |-> {l}] : l \in LanSections}
Envs ==
  [login : Logins, displayNameCache : {{}} \cup {{d} : d \in DisplayNames},
   hostname : {HostName}, settings : Settings]

\* Two runs of the program, which differ in nothing but the login name and
\* the resolved display name.
Runs == {1, 2}
EnvPairs ==
  {e \in [Runs -> Envs] : /\ e[1].settings = e[2].settings
                          /\ e[1].hostname = e[2].hostname}

\* a || b on strings: the empty string is falsy.
Or(a, b) == IF a # "" THEN a ELSE b

\* getLocalInfo(). platform, arch, version, addresses and httpPort do not
\* depend on the settings or the names and are left out.
getLocalInfoNameAlways(e) ==
  LET login == e.login
      dispResolved ==
        IF e.displayNameCache = {} THEN Or(login, e.hostname)
        ELSE Or(CHOOSE d \in e.displayNameCache : TRUE, Or(login, e.hostname))
      lan == IF e.settings.kind = "parsed" THEN e.settings.lan ELSE {}
      broadcastLoginName == \E l \in lan : l.broadcastLoginName
      broadcastDisplayName == \E l \in lan : l.broadcastDisplayName
  IN [id |-> instanceId,
      name |-> dispResolved,
      username |-> IF broadcastLoginName THEN {login} ELSE {},
      displayName |-> IF broadcastDisplayName THEN {dispResolved} ELSE {},
      hostname |-> e.hostname]
getLocalInfo(e) ==
  LET login == e.login
      dispResolved ==
        IF e.displayNameCache = {} THEN Or(login, e.hostname)
        ELSE Or(CHOOSE d \in e.displayNameCache : TRUE, Or(login, e.hostname))
      lan == IF e.settings.kind = "parsed" THEN e.settings.lan ELSE {}
      broadcastLoginName == \E l \in lan : l.broadcastLoginName
      broadcastDisplayName == \E l \in lan : l.broadcastDisplayName
  IN [id |-> instanceId,
      name |-> IF broadcastDisplayName THEN dispResolved ELSE e.hostname,
      username |-> IF broadcastLoginName THEN {login} ELSE {},
      displayName |-> IF broadcastDisplayName THEN {dispResolved} ELSE {},
      hostname |-> e.hostname]

\* No call of getLocalInfo under way.
InfoIdle ==
  /\ env = [r \in Runs |-> [login |-> "", displayNameCache |-> {},
                            hostname |-> HostName,
                            settings |-> [kind |-> "absent", lan |-> {}]]]
  /\ info = [r \in Runs |-> {}]

\* getLocalInfo() returns in run r.
GetLocalInfo(r) ==
  /\ info[r] = {}
  /\ info' = [info EXCEPT ![r] = {getLocalInfo(env[r])}]
  /\ UNCHANGED <<sanName, sanResult, env>>
  /\ UNCHANGED <<recvVars, sendVars, discVars>>

FnInit == SanitizeIdle /\ InfoIdle

\* --------------------------------------------------------- specifications
vars == <<recvVars, sendVars, discVars, fnVars>>

Init == RecvInit /\ SendInit /\ DiscInit /\ FnInit

\* The receiver role: offers, decisions, timers and uploads.
Next ==
  \/ Tick
  \/ \E n \in ProjectNames : OfferRequest(n)
  \/ OfferBadBody
  \/ \E id \in OfferIds, acc \in BOOLEAN : OfferReply(id, acc)
  \/ \E o \in OfferIds : Timeout(o)
  \/ \E t \in Tokens : UploadRequest(t)
  \/ \E u \in UploadIds : ReqData(u)
  \/ \E u \in UploadIds : ReqError(u)
  \/ \E u \in UploadIds : WsError(u)
  \/ \E u \in UploadIds : WsClose(u)
  \/ \E u \in UploadIds : ExtractOk(u)
  \/ \E u \in UploadIds : ExtractFail(u)

Spec == Init /\ [][Next]_vars

\* The offer handlers alone: requests, decisions and timers.
OfferNext ==
  \/ Tick
  \/ \E n \in ProjectNames : OfferRequest(n)
  \/ \E id \in OfferIds, acc \in BOOLEAN : OfferReply(id, acc)
  \/ \E o \in OfferIds : Timeout(o)

OfferSpec == Init /\ [][OfferNext]_vars

\* setTimeout: the timer of every offer eventually fires.
FairSpec == OfferSpec /\ \A o \in OfferIds : WF_vars(Timeout(o))

\* The upload handlers, with the offers and decisions that mint their tokens.
\* At most MaxMinted offers are received here, and the replies are those for
\* pending offers (OfferSpec has the others).
UploadNext ==
  \/ \E n \in ProjectNames : nextOffer < MaxMinted /\ OfferRequest(n)
  \/ \E id \in pendingOffers, acc \in BOOLEAN : OfferReply(id, acc)
  \/ \E t \in Tokens : UploadRequest(t)
  \/ \E u \in UploadIds : ReqData(u)
  \/ \E u \in UploadIds : ReqError(u)
  \/ \E u \in UploadIds : WsError(u)
  \/ \E u \in UploadIds : WsClose(u)
  \/ \E u \in UploadIds : ExtractOk(u)
  \/ \E u \in UploadIds : ExtractFail(u)

UploadSpec == Init /\ [][UploadNext]_vars

\* Transfers that share no token: the receiver role with every minted token
\* presented by one upload request at most.
IndependentNext ==
  \/ Tick
  \/ \E n \in ProjectNames : OfferRequest(n)
  \/ OfferBadBody
  \/ \E id \in pendingOffers, acc \in BOOLEAN : OfferReply(id, acc)
  \/ \E t \in DOMAIN pendingUploads :
       /\ \A u \in UploadIds : uploads[u].st # "none" => uploads[u].tok # t
       /\ UploadRequest(t)
  \/ \E u \in UploadIds : ReqError(u)
  \/ \E u \in UploadIds : WsError(u)
  \/ \E u \in UploadIds : WsClose(u)
  \/ \E u \in UploadIds : ExtractOk(u)
  \/ \E u \in UploadIds : ExtractFail(u)

IndependentSpec == Init /\ [][IndependentNext]_vars

\* Offers awaiting their decision among the other requests: offers without
\* a name, their replies and timers, and at most MaxCounted uploads, each
\* with a pending token.
WaitingNext ==
  \/ OfferRequest(<<>>)
  \/ \E id \in pendingOffers, acc \in BOOLEAN : OfferReply(id, acc)
  \/ \E o \in OfferIds : Timeout(o)
  \/ \E t \in DOMAIN pendingUploads : nextUpload < MaxCounted /\ UploadRequest(t)
  \/ \E u \in UploadIds : WsClose(u)
  \/ \E u \in UploadIds : ExtractOk(u)
  \/ \E u \in UploadIds : ExtractFail(u)

WaitingSpec == Init /\ [][WaitingNext]_vars

\* An accepted offer whose sender may never upload, beside everything else
\* the process handles meanwhile: timers, later offers and their replies,
\* uploads (at most MaxCounted), and discovery requests of other instances
\* (at most MaxCounted).
AbandonedNext ==
  \/ OfferRequest(<<>>)
  \/ \E id \in pendingOffers, acc \in BOOLEAN : OfferReply(id, acc)
  \/ \E o \in OfferIds : Timeout(o)
  \/ \E t \in DOMAIN pendingUploads : nextUpload < MaxCounted /\ UploadRequest(t)
  \/ \E u \in UploadIds : WsClose(u)
  \/ \E u \in UploadIds : ExtractOk(u)
  \/ \E u \in UploadIds : ExtractFail(u)
  \/ \E p \in PeerIds \ {instanceId} :
       datagrams < MaxCounted /\ RemoteDatagram(p, [kind |-> "req"])
  \/ \E m \in inbox : Message(m)

AbandonedSpec == Init /\ [][AbandonedNext]_vars

\* Transfers between two instances of the program: the sender-role state is
\* the sending instance's, the receiver-role state the receiving instance's.
\* The requests of the sender are the requests the receiver handles, and the
\* responses of the receiver are the ones the sender reads: the offers of
\* the shares arrive in the order of the shares (share s is offer s), the
\* offer response is the one the offer handler wrote, the upload carries the
\* token of that response, and the upload response is the one the upload
\* handler wrote. At most MaxCounted shares are started.

\* The offer response of offer o as httpPostJson resolves with it.
OfferResponseOf(o) == [accept |-> offers[o].accept = {TRUE},
                       uploadUrl |-> offers[o].uploadUrl # {}]

\* The upload requests that carried the token of share s.
UploadsOf(s) == {u \in UploadIds : /\ uploads[u].st # "none"
                                   /\ uploads[u].tok \in offers[s].token}

TransferNext ==
  \/ nextShare < MaxCounted /\ Share
  \/ /\ nextOffer + 1 \in ShareIds
     /\ shares[nextOffer + 1].pc = "offering"
     /\ OfferRequest(<<>>)
  \/ \E id \in pendingOffers, acc \in BOOLEAN : OfferReply(id, acc)
  \/ \E o \in OfferIds : Timeout(o)
  \/ \E s \in ShareIds :
       /\ s \in OfferIds
       /\ offers[s].status = 200
       /\ OfferAnswered(s, OfferResponseOf(s))
  \/ \E s \in ShareIds : OfferFailed(s)
  \/ \E s \in ShareIds, created \in BOOLEAN : ZipFailed(s, created)
  \/ \E s \in ShareIds, readable \in BOOLEAN : ZipDone(s, readable)
  \/ \E s \in Uploading :
       /\ UploadsOf(s) = {}
       /\ \E t \in offers[s].token : UploadRequest(t)
  \/ \E s \in ShareIds : ReadData(s)
  \/ \E u \in UploadIds : ReqData(u)
  \/ \E u \in UploadIds : ReqError(u)
  \/ \E u \in UploadIds : WsError(u)
  \/ \E u \in UploadIds : WsClose(u)
  \/ \E u \in UploadIds : ExtractOk(u)
  \/ \E u \in UploadIds : ExtractFail(u)
  \/ \E s \in ShareIds, u \in UploadIds :
       /\ u \in UploadsOf(s)
       /\ uploads[u].st = "closed"
       /\ UploadResponse(s, uploads[u].status)
  \/ \E s \in ShareIds : UploadReqError(s)

TransferSpec == Init /\ [][TransferNext]_vars

\* The sender role.
SendNext ==
  \/ Share
  \/ \E s \in ShareIds, r \in OfferReplies : OfferAnswered(s, r)
  \/ \E s \in ShareIds : OfferFailed(s)
  \/ \E s \in ShareIds, created \in BOOLEAN : ZipFailed(s, created)
  \/ \E s \in ShareIds, readable \in BOOLEAN : ZipDone(s, readable)
  \/ \E s \in ShareIds : ReadData(s)
  \/ \E s \in ShareIds, status \in UploadStatuses : UploadResponse(s, status)
  \/ \E s \in ShareIds : UploadReqError(s)

SendSpec == Init /\ [][SendNext]_vars

\* Discovery.
DiscNext ==
  \/ BroadcastDiscovery
  \/ \E p \in PeerIds \ {instanceId}, text \in Texts : RemoteDatagram(p, text)
  \/ \E m \in inbox : Message(m)

DiscSpec == Init /\ [][DiscNext]_vars

\* Both roles in one process: the handlers that update activeSends or
\* activeReceives and those that lead to them (an offer with its decision,
\* an upload, a share), interleaved in any order. At most MaxCounted offers,
\* uploads and shares are received here.
CounterNext ==
  \/ nextOffer < MaxCounted /\ OfferRequest(<<>>)
  \/ \E id \in OfferIds, acc \in BOOLEAN : OfferReply(id, acc)
  \/ \E t \in Tokens : nextUpload < MaxCounted /\ UploadRequest(t)
  \/ \E u \in UploadIds : ReqError(u)
  \/ \E u \in UploadIds : WsError(u)
  \/ \E u \in UploadIds : WsClose(u)
  \/ \E u \in UploadIds : ExtractOk(u)
  \/ \E u \in UploadIds : ExtractFail(u)
  \/ nextShare < MaxCounted /\ Share
  \/ \E s \in ShareIds, r \in OfferReplies : OfferAnswered(s, r)
  \/ \E s \in ShareIds : OfferFailed(s)
  \/ \E s \in ShareIds, created \in BOOLEAN : ZipFailed(s, created)
  \/ \E s \in ShareIds, readable \in BOOLEAN : ZipDone(s, readable)
  \/ \E s \in ShareIds, status \in UploadStatuses : UploadResponse(s, status)
  \/ \E s \in ShareIds : UploadReqError(s)

CounterSpec == Init /\ [][CounterNext]_vars

\* sanitize alone, applied to every name of Names.
SanitizeInit ==
  /\ RecvInit /\ SendInit /\ DiscInit /\ InfoIdle
  /\ sanName \in Names
  /\ sanResult = {}

SanitizeNext == Sanitize

SanitizeSpec == SanitizeInit /\ [][SanitizeNext]_vars

\* getLocalInfo alone, in two runs over every pair of environments.
InfoInit ==
  /\ RecvInit /\ SendInit /\ DiscInit /\ SanitizeIdle
  /\ env \in EnvPairs
  /\ info = [r \in Runs |-> {}]

InfoNext == \E r \in Runs : GetLocalInfo(r)

InfoSpec == InfoInit /\ [][InfoNext]_vars

\* ------------------------------------------------------------------ claims
\* Upload requests with token t that passed the token check.
Admitted(t) ==
  {u \in UploadIds : uploads[u].st # "none" /\ uploads[u].tok = t
                     /\ uploads[u].outcome # "invalid"}

\* Uploads whose handler is between the token check and a terminal outcome.
InFlight == {u \in UploadIds : uploads[u].st \in {"receiving", "extracting"}}

\* C1: for every token, at most one upload request carrying it is ever
\* admitted past the token check.
C1_AtMostOneAdmitted == \A t \in Tokens : Cardinality(Admitted(t)) <= 1

\* C2: once an upload has completed successfully its token is not a key of
\* pendingUploads, and every later upload request with that token is answered
\* 400 'Invalid token' without starting a receive.
C2_DoneTokenInvalid ==
  [][\A u \in UploadIds :
       /\ uploads'[u].outcome = "done" => uploads'[u].tok \notin DOMAIN pendingUploads'
       /\ (/\ uploads[u].outcome = "done"
           /\ nextUpload' = nextUpload + 1
           /\ uploads'[nextUpload'].tok = uploads[u].tok)
          => /\ uploads'[nextUpload'].status = 400
             /\ uploads'[nextUpload'].error = "Invalid token"
             /\ uploads'[nextUpload'].st = "closed"
             /\ uploads'[nextUpload'].ev = <<>>
             /\ activeReceives' = activeReceives
             /\ zips' = zips]_vars

\* An upload completed, and a later request with its token was refused.
C2_Witness ==
  /\ uploads[1].outcome = "done"
  /\ uploads[2].tok = uploads[1].tok
  /\ uploads[2].outcome = "invalid"

\* C3: an offer response carries uploadUrl and token iff accept is true; an
\* accepted offer adds exactly one new pendingUploads entry, keyed by the
\* returned token and bound to its (existing) destination directory; a
\* declined or timed-out offer adds no entry and creates no directory.
C3_OfferResponse ==
  [][\A o \in OfferIds :
       /\ offers'[o].uploadUrl # {} <=> offers'[o].accept = {TRUE}
       /\ offers'[o].token # {} <=> offers'[o].accept = {TRUE}
       /\ (offers[o].st = "waiting" /\ offers'[o].st = "accepted")
          => \E t \in offers'[o].token :
               /\ offers'[o].uploadUrl = {t}
               /\ t \notin DOMAIN pendingUploads
               /\ DOMAIN pendingUploads' = DOMAIN pendingUploads \cup {t}
               /\ \A x \in DOMAIN pendingUploads : pendingUploads'[x] = pendingUploads[x]
               /\ pendingUploads'[t].destDir \in dirs'
               /\ offers'[o].destLabel = {pendingUploads'[t].destDir}
       /\ (offers[o].st = "waiting" /\ offers'[o].st = "declined")
          => /\ pendingUploads' = pendingUploads
             /\ dirs' = dirs]_vars

\* One offer was accepted and one was declined by its timer.
C3_Witness ==
  /\ offers[1].st = "accepted"
  /\ offers[2].st = "declined"
  /\ ipcReply = <<1, "ok">>
  /\ 2 \notin timers

\* C4: the wait of an offer id resolves at most once and its pendingOffers
\* entry is gone at that resolution; a lan:offer-reply for an id already
\* decided or timed out changes nothing and returns 'Offer not found'.
C4_ResolveOnce ==
  [][\A o \in OfferIds :
       /\ offers'[o].resolves <= 1
       /\ offers'[o].resolves = 1 => o \notin pendingOffers'
       /\ \A acc \in BOOLEAN :
            (offers[o].st \in {"accepted", "declined"} /\ OfferReply(o, acc))
            => /\ ipcReply' = <<o, "Offer not found">>
               /\ UNCHANGED <<offers, settled, pendingOffers, pendingUploads,
                              nextToken, dirs>>]_vars

\* Offer 1 was accepted by a reply, and a later reply for it was not found.
C4_Witness ==
  /\ offers[1].st = "accepted"
  /\ offers[1].resolves = 1
  /\ ipcReply = <<1, "Offer not found">>

\* The 'declined' events emitted for offer o.
DeclinedEvents(o) ==
  Cardinality({i \in DOMAIN offers[o].ev : offers[o].ev[i] = "declined"})

C7_ReceivesBalanced == activeReceives = Cardinality(InFlight)

\* C10: an upload request whose token is not a key of pendingUploads is
\* answered 400 'Invalid token' and changes nothing else.
C10_InvalidToken ==
  [][(nextUpload' = nextUpload + 1
      /\ uploads'[nextUpload'].tok \notin DOMAIN pendingUploads)
     => /\ uploads'[nextUpload'].status = 400
        /\ uploads'[nextUpload'].error = "Invalid token"
        /\ uploads'[nextUpload'].ev = <<>>
        /\ \A u \in UploadIds \ {nextUpload'} : uploads'[u] = uploads[u]
        /\ UNCHANGED <<dirs, zips, pendingUploads, pendingOffers, offers,
                       activeReceives, nextToken>>]_vars

\* A request without a token and one with an unknown token were refused.
C10_Witness ==
  /\ uploads[1].outcome = "invalid" /\ uploads[1].tok = EmptyToken
  /\ uploads[2].outcome = "invalid" /\ uploads[2].tok # EmptyToken

\* C6: a share request decrements activeSends exactly once if it incremented
\* it and not at all otherwise, so the counter is the number of uploads in
\* flight.
C6_SendsBalanced ==
  /\ \A s \in ShareIds : shares[s].pc = "returned" => shares[s].dec = shares[s].inc
  /\ activeSends = Cardinality(Uploading)

\* C8: the two counters are never negative.
C8_NonNegative == activeSends >= 0 /\ activeReceives >= 0

\* A decrement met a counter that was already 0 (a share that decremented
\* more often than it incremented, with no other send in flight), while a
\* receive was in flight.
C8_Witness ==
  /\ \E s \in ShareIds : shares[s].dec > shares[s].inc
  /\ activeSends = 0
  /\ activeReceives > 0

\* C9: a discovery response carrying the local instance id is never
\* forwarded as a 'lan:peer' event.
C9_SelfFiltered == instanceId \notin peerEvents

\* The socket answered its own broadcast and handled that answer, and a
\* response of another peer was forwarded.
C9_Witness ==
  /\ \E i \in DOMAIN udpSent : udpSent[i].to = instanceId
  /\ selfHandled = 1
  /\ peerEvents # {}

\* The progress events of share s with phase or status e.
SenderEvents(s, e) == {i \in DOMAIN shares[s].ev : shares[s].ev[i] = e}

\* C11: an offer reply without accept = true and a non-empty uploadUrl makes
\* the share return {ok:false, declined:true}; it never zips or uploads, and
\* activeSends keeps its value.
C11_DeclinedReply ==
  [][\A s \in ShareIds :
       /\ \A r \in OfferReplies :
            (OfferAnswered(s, r) /\ ~(r.accept /\ r.uploadUrl))
            => /\ shares'[s].pc = "returned"
               /\ shares'[s].ok = {FALSE}
               /\ shares'[s].declined
               /\ activeSends' = activeSends
               /\ archives' = archives
       /\ shares'[s].declined
          => /\ shares'[s].inc = 0 /\ shares'[s].dec = 0
             /\ SenderEvents(s, "zipping")' = {}
             /\ SenderEvents(s, "uploading")' = {}
             /\ s \notin archives']_vars

\* A share was declined while another one was uploading.
C11_Witness ==
  \E s, t \in ShareIds :
    /\ shares[s].declined /\ shares[s].pc = "returned"
    /\ shares[t].pc = "uploading"
    /\ activeSends = 1

\* C12: the result of sanitize contains none of / \ : * ? " < > | and has
\* no leading or trailing whitespace.
C12_NoListedCharacter ==
  \A r \in sanResult :
    /\ \A i \in DOMAIN r : r[i] \notin SanitizeClass \cup {"\\"}
    /\ r # <<>> => r[1] \notin WhiteSpace /\ r[Len(r)] \notin WhiteSpace

C14_ExactFiles ==
  [][\A u \in UploadIds :
       ExtractOk(u) => /\ Listing(PendingOf(u).destDir)' = UploadBody(u)
                       /\ PendingOf(u).destDir \notin zips']_vars

\* C17: any two accepted offers have different destination directories and
\* different temporary archive paths.
C17_DistinctDestinations ==
  \A o1, o2 \in OfferIds :
    (o1 # o2 /\ offers[o1].st = "accepted" /\ offers[o2].st = "accepted")
    => \A d1 \in offers[o1].destLabel, d2 \in offers[o2].destLabel :
         d1 # d2 /\ TmpZip(d1) # TmpZip(d2)

\* C18: an offer whose body is no valid JSON is answered 400; no offer is
\* registered, and the pending uploads, the counters and the transfers in
\* flight stay as they are.
C18_BadBody400 ==
  [][OfferBadBody
     => /\ badBodyStatus' \subseteq {400}
        /\ UNCHANGED <<nextOffer, offers, pendingOffers, timers, pendingUploads,
                       uploads, activeReceives, shares, activeSends>>]_vars

\* Whether the settings of run r turn a broadcast flag on.
ShowsDisplayName(r) ==
  /\ env[r].settings.kind = "parsed"
  /\ \E l \in env[r].settings.lan : l.broadcastDisplayName

ShowsLoginName(r) ==
  /\ env[r].settings.kind = "parsed"
  /\ \E l \in env[r].settings.lan : l.broadcastLoginName

\* C16: with the settings absent, unreadable or both flags false, the
\* PeerInfo has the host name as name and neither username nor displayName,
\* and two runs that differ only in login name and display name return the
\* same PeerInfo. broadcastLoginName alone adds the username and nothing
\* else (the display name has no influence); broadcastDisplayName alone sets
\* name and displayName to the resolved display name and adds no username.
C16_GatedExposure ==
  /\ \A r \in Runs : \A i \in info[r] :
       /\ (~ShowsDisplayName(r) /\ ~ShowsLoginName(r))
          => i.name = env[r].hostname /\ i.username = {} /\ i.displayName = {}
       /\ (ShowsLoginName(r) /\ ~ShowsDisplayName(r))
          => /\ i.name = env[r].hostname /\ i.displayName = {}
             /\ i.username = {env[r].login}
       /\ (ShowsDisplayName(r) /\ ~ShowsLoginName(r))
          => /\ i.username = {} /\ i.displayName = {i.name}
             /\ i.name \in env[r].displayNameCache
                             \cup {env[r].login, env[r].hostname}
  /\ (info[1] # {} /\ info[2] # {})
     => /\ (~ShowsDisplayName(1) /\ ~ShowsLoginName(1)) => info[1] = info[2]
        /\ (ShowsLoginName(1) /\ ~ShowsDisplayName(1)
            /\ env[1].login = env[2].login) => info[1] = info[2]

\* Both runs returned, with both flags false in the settings and different
\* login names and display names.
C16_Witness ==
  /\ info[1] # {} /\ info[2] # {}
  /\ env[1].settings = [kind |-> "parsed",
                        lan |-> {[broadcastDisplayName |-> FALSE,
                                  broadcastLoginName |-> FALSE]}]
  /\ env[1].login = "ann" /\ env[2].login = "bob"
  /\ env[1].displayNameCache = {"Ann A"} /\ env[2].displayNameCache = {"Bob B"}

\* C15: every discovery request the socket receives is answered with one
\* datagram, sent to the request's source and carrying the response magic
\* and the local info, whatever was answered before; it produces no peer
\* event.
C15_EveryRequestAnswered ==
  [][\A m \in inbox :
       (Message(m) /\ m.text.kind = "req")
       => /\ Len(udpSent') = Len(udpSent) + 1
          /\ SubSeq(udpSent', 1, Len(udpSent)) = udpSent
          /\ udpSent'[Len(udpSent')] =
               [to |-> m.from,
                text |-> [kind |-> "json", res |-> TRUE, info |-> {instanceId}]]
          /\ peerEvents' = peerEvents]_vars

\* Two requests of the same remote peer were both answered.
C15_Witness ==
  /\ Len(udpSent) >= 2
  /\ udpSent[1].to # instanceId
  /\ udpSent[2].to = udpSent[1].to
  /\ peerEvents = {}

\* C19: a share that emitted 'pending' emits a terminal progress event
\* (declined, done or error). The handler emits nothing after it has
\* returned, so: a share whose handler has returned has emitted one.
C19_TerminalEvent ==
  \A s \in ShareIds :
    shares[s].pc = "returned"
    => \E e \in {"declined", "done", "error"} : SenderEvents(s, e) # {}

\* C20: the progress events of a share are, in this order, pending, then
\* declined or else accepted, zipping, one or more uploading, then done or
\* error; nothing follows declined, done or error.
C20_EventOrder ==
  \A s \in ShareIds :
    LET ev == shares[s].ev
        After(e) ==
          CASE e = "pending" -> {"declined", "accepted"}
            [] e = "accepted" -> {"zipping"}
            [] e = "zipping" -> {"uploading"}
            [] e = "uploading" -> {"uploading", "done", "error"}
            [] OTHER -> {}
    IN /\ ev # <<>> => ev[1] = "pending"
       /\ \A i \in DOMAIN ev : i > 1 => ev[i] \in After(ev[i - 1])

\* Admitted uploads whose request handler has finished.
Finished == {u \in UploadIds : uploads[u].st = "closed" /\ uploads[u].outcome # "invalid"}

\* C21: the receiver progress events of an admitted upload are one or more
\* receiving, then extracting at most once, then done or error, and nothing
\* after that; an upload whose handler has finished has emitted its terminal
\* event (the handler emits nothing once it has finished).
C21_ReceiverEventOrder ==
  \A u \in UploadIds :
    LET ev == uploads[u].ev
        After(e) ==
          CASE e = "receiving" -> {"receiving", "extracting", "error"}
            [] e = "extracting" -> {"done", "error"}
            [] OTHER -> {}
    IN /\ ev # <<>> => ev[1] = "receiving"
       /\ \A i \in DOMAIN ev : i > 1 => ev[i] \in After(ev[i - 1])
       /\ u \in Finished => ev # <<>> /\ ev[Len(ev)] \in {"done", "error"}

\* C22: once an admitted upload has reached a terminal outcome its token is
\* no key of pendingUploads.
C22_TokenRemoved ==
  [][\A u \in UploadIds :
       (u \notin Finished /\ u \in Finished')
       => uploads'[u].tok \notin DOMAIN pendingUploads']_vars

\* C23: when the handler of an admitted upload finishes, on whichever path,
\* its destination directory holds no incoming.zip.
C23_TempArchiveRemoved ==
  [][\A u \in UploadIds :
       (u \notin Finished /\ u \in Finished')
       => PendingOf(u).destDir \notin zips']_vars

\* C24: when a share request has returned, no temporary archive of it is
\* left: neither one zipSource produced nor one whose creation failed.
C24_ArchiveRemoved ==
  \A s \in ShareIds : shares[s].pc = "returned" => s \notin archives

\* The receiver progress events of upload u with phase e.
ReceiverEvents(u, e) == {i \in DOMAIN uploads[u].ev : uploads[u].ev[i] = e}

\* C25: a failed extraction answers 500 {ok:false, error}, emits one 'error'
\* event and neither 'done' nor 'lan:received', removes incoming.zip and
\* keeps the destination directory.
C25_ExtractFailure ==
  [][\A u \in UploadIds :
       ExtractFail(u)
       => /\ uploads'[u].status = 500
          /\ uploads'[u].error = "Extract failed"
          /\ Cardinality(ReceiverEvents(u, "error")') = 1
          /\ uploads'[u].ev[Len(uploads'[u].ev)] = "error"
          /\ ReceiverEvents(u, "done")' = {}
          /\ ~uploads'[u].notified
          /\ PendingOf(u).destDir \notin zips'
          /\ PendingOf(u).destDir \in dirs'
          /\ dirs' = dirs]_vars

\* An extraction failed after part of the archive was written.
C25_Witness ==
  \E u \in UploadIds :
    /\ uploads[u].outcome = "extractfail"
    /\ Listing(PendingOf(u).destDir) # {}
    /\ PendingOf(u).destDir \in dirs

\* C26: when the offer POST fails, or its reply is no JSON (httpPostJson
\* then resolves {}), the share request returns a result with ok:false; it
\* does not zip or upload, and activeSends keeps its value.
C26_OfferNotAccepted ==
  [][\A s \in ShareIds :
       (\/ OfferFailed(s)
        \/ OfferAnswered(s, [accept |-> FALSE, uploadUrl |-> FALSE]))
       => /\ shares'[s].pc = "returned"
          /\ shares'[s].ok = {FALSE}
          /\ shares'[s].inc = 0
          /\ SenderEvents(s, "zipping")' = {}
          /\ SenderEvents(s, "uploading")' = {}
          /\ s \notin archives'
          /\ activeSends' = activeSends
          /\ archives' = archives]_vars

\* An offer POST failed while another share was uploading.
C26_Witness ==
  \E s, t \in ShareIds :
    /\ shares[s].pc = "returned" /\ shares[s].error = "offer failed"
    /\ shares[t].pc = "uploading"
    /\ activeSends = 1

\* C27: while displayNameCache is absent, the name getLocalInfo exposes as
\* display name (under broadcastDisplayName) is the host name, whatever the
\* login name is.
C27_HostNameBeforeResolution ==
  \A r \in Runs : \A i \in info[r] :
    (env[r].displayNameCache = {} /\ ShowsDisplayName(r))
    => i.name = env[r].hostname /\ i.displayName = {env[r].hostname}

\* C28: while offer a awaits its decision, every step that is neither its
\* own reply nor its own timer (another offer, a reply or a timer of another
\* offer, an upload step) leaves it waiting, with its pendingOffers entry,
\* its timer and its handler as they were; and the uploads in flight are
\* not held up: an upload that is receiving can close its stream.
C28_WaitingUndisturbed ==
  /\ [](\A a \in OfferIds, u \in UploadIds :
          (offers[a].st = "waiting" /\ uploads[u].st = "receiving")
          => ENABLED WsClose(u))
  /\ [][\A a \in OfferIds :
          (/\ offers[a].st = "waiting"
           /\ ~ \E acc \in BOOLEAN : OfferReply(a, acc)
           /\ ~ Timeout(a))
          => /\ offers'[a] = offers[a]
             /\ a \in pendingOffers <=> a \in pendingOffers'
             /\ a \in settled <=> a \in settled'
             /\ a \in timers <=> a \in timers']_vars

\* Offer 1 still awaits its decision after offer 2, received later, was
\* accepted and its upload was received and extracted.
C28_Witness ==
  /\ offers[1].st = "waiting" /\ 1 \in pendingOffers
  /\ offers[2].st = "accepted"
  /\ \E u \in UploadIds : uploads[u].outcome = "done" /\ uploads[u].tok \in offers[2].token

\* C29: a pendingUploads entry is removed only by the completion of an
\* upload that presented its token; every other step (a timer, an offer or
\* its reply, an upload with another token, a discovery message) leaves the
\* entry as it was, and no step removes a destination directory.
C29_EntryRemains ==
  [][/\ \A t \in DOMAIN pendingUploads :
          /\ t \notin DOMAIN pendingUploads'
               => \E u \in UploadIds : /\ uploads[u].tok = t
                                        /\ uploads[u].st = "extracting"
                                        /\ uploads'[u].outcome = "done"
          /\ t \in DOMAIN pendingUploads'
               => pendingUploads'[t] = pendingUploads[t]
     /\ dirs \subseteq dirs']_vars

\* The first offer was accepted and never uploaded: its timer has fired, a
\* later offer was accepted and its upload completed, a discovery request
\* was answered, and the first offer's entry and directory are still there.
C29_Witness ==
  /\ offers[1].st = "accepted" /\ 1 \notin timers
  /\ \A u \in UploadIds : uploads[u].tok \notin offers[1].token
  /\ offers[1].token \subseteq DOMAIN pendingUploads
  /\ \A t \in offers[1].token : pendingUploads[t].destDir \in dirs
  /\ offers[2].st = "accepted"
  /\ \E u \in UploadIds : /\ uploads[u].outcome = "done"
                           /\ uploads[u].tok \in offers[2].token
  /\ Len(udpSent) > 0

\* C30: when the sender of a transfer has emitted 'done' or returned
\* ok:true, the receiver has handled an upload with the transfer's token to
\* its end: the token is not a key of pendingUploads, 'lan:received' was
\* sent, the receiver's 'done' event was emitted, and no upload of the
\* transfer emitted 'error' or was answered otherwise than 200; and the step
\* that writes the 200 answer is the one that removes the token, decrements
\* activeReceives, sends 'lan:received' and emits 'done'.
C30_SenderDoneAfterReceiver ==
  /\ [](\A s \in ShareIds :
          (SenderEvents(s, "done") # {} \/ shares[s].ok = {TRUE})
          => /\ s \in OfferIds
             /\ \E u \in UploadsOf(s) :
                  /\ uploads[u].outcome = "done"
                  /\ uploads[u].tok \notin DOMAIN pendingUploads
                  /\ uploads[u].notified
                  /\ ReceiverEvents(u, "done") # {}
                  /\ u \notin InFlight
             /\ \A u \in UploadsOf(s) :
                  /\ ReceiverEvents(u, "error") = {}
                  /\ uploads[u].status = 200)
  /\ [][\A u \in UploadIds :
         (uploads[u].status # 200 /\ uploads'[u].status = 200)
         => /\ uploads[u].tok \in DOMAIN pendingUploads
            /\ uploads[u].tok \notin DOMAIN pendingUploads'
            /\ activeReceives' = Dec(activeReceives)
            /\ uploads'[u].notified
            /\ uploads'[u].ev = Append(uploads[u].ev, "done")]_vars

\* A transfer went through on both sides: the receiver finished it and the
\* sender, having read the 200 answer, reported it done.
C30_Witness ==
  \E s \in ShareIds :
    /\ SenderEvents(s, "done") # {}
    /\ shares[s].ok = {TRUE}
    /\ \E u \in UploadsOf(s) : uploads[u].outcome = "done"

====
